---- MODULE Spec2Model ----
(***************************************************************************)
(* Model of the djfirebirdsql dialect-translation layer: value quoting,    *)
(* textual parameter substitution, cursor execution and the schema         *)
(* editor's DDL generation.                                                *)
(*                                                                         *)
(* Text is modelled as a sequence of one-character strings, so that        *)
(* quoting, escaping and percent-formatting are computed character by      *)
(* character as the Python code computes them.                             *)
(***************************************************************************)
EXTENDS Integers, Sequences, FiniteSets, TLC

VARIABLES
    pc,       \* "idle": a fresh cursor awaits a call; "done": the call returned or raised
    call,     \* the invocation made: operation name and its arguments
    sent,     \* statements handed to Database.Cursor.execute, in order
    raised,   \* "" when the call returned, else the name of the exception raised
    result    \* the text a pure call returned (<<>> when it returns none)

vars == <<pc, call, sent, raised, result>>

----------------------------------------------------------------------------
(* Bounds of the model *)

MaxQueryLen == 4
MaxParams == 2
MaxSets == 3
MaxRefs == 2
MaxTextLen == 3
MaxBytesLen == 2

----------------------------------------------------------------------------
(* Text helpers *)

StrUpTo(A, n) == UNION {[1..k -> A] : k \in 0..n}

Digits == <<"0", "1", "2", "3", "4", "5", "6", "7", "8", "9">>
HexDigits == <<"0", "1", "2", "3", "4", "5", "6", "7", "8", "9", "a", "b", "c", "d", "e", "f">>

\* str(n) for a natural number
RECURSIVE NatToStr(_)
NatToStr(n) ==
    IF n < 10 THEN <<Digits[n + 1]>>
    ELSE NatToStr(n \div 10) \o <<Digits[(n % 10) + 1]>>

\* str(n) for an int
IntToStr(n) == IF n < 0 THEN <<"-">> \o NatToStr(-n) ELSE NatToStr(n)

\* zero-padded decimal of width w, as date.__str__ renders its fields
RECURSIVE Pad(_, _)
Pad(n, w) == IF w = 0 THEN <<>> ELSE Pad(n \div 10, w - 1) \o <<Digits[(n % 10) + 1]>>

\* str(datetime.date(y, m, d)): ISO format YYYY-MM-DD
DateToStr(d) == Pad(d[1], 4) \o <<"-">> \o Pad(d[2], 2) \o <<"-">> \o Pad(d[3], 2)

\* str(datetime.datetime(...)) with no microseconds: the date, a space,
\* HH:MM:SS and, for an aware value, the UTC offset as +HH:MM or -HH:MM
\* (the model's offsets are whole hours)
DateTimeToStr(v) ==
    DateToStr(v.d) \o <<" ">>
    \o Pad(v.t[1], 2) \o <<":">> \o Pad(v.t[2], 2) \o <<":">> \o Pad(v.t[3], 2)
    \o (IF v.aware
        THEN (IF v.off < 0 THEN <<"-">> \o Pad(-v.off, 2) ELSE <<"+">> \o Pad(v.off, 2))
             \o <<":", "0", "0">>
        ELSE <<>>)

\* v.astimezone(timezone.utc).replace(tzinfo=None); the model's datetimes
\* lie inside a month, so that the day before and after exist in it
ToNaiveUTC(v) ==
    LET h == v.t[1] - v.off
        shift == IF h < 0 THEN -1 ELSE IF h >= 24 THEN 1 ELSE 0
    IN  [v EXCEPT !.aware = FALSE, !.off = 0,
                  !.t = <<h % 24, v.t[2], v.t[3]>>,
                  !.d = <<v.d[1], v.d[2], v.d[3] + shift>>]

\* str.replace("'", "''"): every occurrence, left to right
RECURSIVE ReplaceQuote(_)
ReplaceQuote(s) ==
    IF s = <<>> THEN <<>>
    ELSE (IF Head(s) = "'" THEN <<"'", "'">> ELSE <<Head(s)>>) \o ReplaceQuote(Tail(s))

\* binascii.hexlify(b).decode('ascii'): two lowercase hex digits per byte
RECURSIVE Hexlify(_)
Hexlify(b) ==
    IF b = <<>> THEN <<>>
    ELSE <<HexDigits[(Head(b) \div 16) + 1], HexDigits[(Head(b) % 16) + 1]>>
         \o Hexlify(Tail(b))

\* str.upper() on the letters the model uses
LowerLetters == <<"a", "b", "c", "d", "e", "f", "g", "h", "i", "j", "k", "l", "m", "n", "o", "p", "q", "r", "s", "t", "u", "v", "w", "x", "y", "z">>
UpperLetters == <<"A", "B", "C", "D", "E", "F", "G", "H", "I", "J", "K", "L", "M", "N", "O", "P", "Q", "R", "S", "T", "U", "V", "W", "X", "Y", "Z">>

UpperChar(c) ==
    IF \E i \in 1..Len(LowerLetters) : LowerLetters[i] = c
    THEN UpperLetters[CHOOSE i \in 1..Len(LowerLetters) : LowerLetters[i] = c]
    ELSE c

Upper(s) == [i \in 1..Len(s) |-> UpperChar(s[i])]

----------------------------------------------------------------------------
(* Typed values: a tagged union with one payload field per variant *)

Blank ==
    [tag |-> "None", s |-> <<>>, n |-> 0, b |-> <<>>, d |-> <<0, 0, 0>>,
     t |-> <<0, 0, 0>>, aware |-> FALSE, off |-> 0]

NoneV == Blank
StrV(t) == [Blank EXCEPT !.tag = "str", !.s = t]
IntV(i) == [Blank EXCEPT !.tag = "int", !.n = i]
BytesV(x) == [Blank EXCEPT !.tag = "bytes", !.b = x]
DateV(y, m, dd) == [Blank EXCEPT !.tag = "date", !.d = <<y, m, dd>>]
\* a naive datetime, and an aware one with its UTC offset in hours
DateTimeV(date, time) == [Blank EXCEPT !.tag = "datetime", !.d = date, !.t = time]
AwareV(date, time, offset) ==
    [Blank EXCEPT !.tag = "datetime", !.d = date, !.t = time, !.aware = TRUE, !.off = offset]

IsTemporal(value) == value.tag \in {"date", "datetime"}
TemporalStr(value) == IF value.tag = "date" THEN DateToStr(value.d) ELSE DateTimeToStr(value)

----------------------------------------------------------------------------
(* base.py: quote_value and convert_sql *)

quote_value(value) ==
    IF IsTemporal(value) THEN <<"'">> \o TemporalStr(value) \o <<"'">>
    ELSE IF value.tag = "str" THEN <<"'">> \o ReplaceQuote(value.s) \o <<"'">>
    ELSE IF value.tag = "bytes" THEN <<"x", "'">> \o Hexlify(value.b) \o <<"'">>
    ELSE IF value.tag = "None" THEN <<"N", "U", "L", "L">>
    ELSE IntToStr(value.n)

\* Python's printf-style operator  fmt % args  for positional arguments
\* that are all str.  Scans fmt once from position i with the arguments
\* from position j on still unused; substituted text is never rescanned.
RECURSIVE FormatFrom(_, _, _, _)
FormatFrom(fmt, i, args, j) ==
    IF i > Len(fmt) THEN
        IF j <= Len(args) THEN [err |-> "TypeError", text |-> <<>>]
        ELSE [err |-> "", text |-> <<>>]
    ELSE IF fmt[i] # "%" THEN
        LET rest == FormatFrom(fmt, i + 1, args, j)
        IN  IF rest.err # "" THEN rest
            ELSE [err |-> "", text |-> <<fmt[i]>> \o rest.text]
    ELSE IF i = Len(fmt) THEN [err |-> "ValueError", text |-> <<>>]
    ELSE IF fmt[i + 1] = "%" THEN
        LET rest == FormatFrom(fmt, i + 2, args, j)
        IN  IF rest.err # "" THEN rest
            ELSE [err |-> "", text |-> <<"%">> \o rest.text]
    ELSE IF j > Len(args) THEN [err |-> "TypeError", text |-> <<>>]
    ELSE IF fmt[i + 1] = "s" THEN
        LET rest == FormatFrom(fmt, i + 2, args, j + 1)
        IN  IF rest.err # "" THEN rest
            ELSE [err |-> "", text |-> args[j] \o rest.text]
    ELSE [err |-> "ValueError", text |-> <<>>]

\* Variant: substitutes one argument at a time into the first "%s" of the
\* text built so far, so that substituted text is scanned again
RECURSIVE PyFormat_rescan(_, _)
PyFormat_rescan(fmt, args) ==
    IF args = <<>> THEN FormatFrom(fmt, 1, <<>>, 1)
    ELSE
        LET hits == {i \in 1..(Len(fmt) - 1) : fmt[i] = "%" /\ fmt[i + 1] = "s"}
        IN  IF hits = {} THEN [err |-> "TypeError", text |-> <<>>]
            ELSE
                LET i == CHOOSE h \in hits : \A g \in hits : h <= g
                IN  PyFormat_rescan(SubSeq(fmt, 1, i - 1) \o Head(args)
                                        \o SubSeq(fmt, i + 2, Len(fmt)),
                                    Tail(args))

PyFormat(fmt, args) == FormatFrom(fmt, 1, args, 1)

\* params is [present, vals]: present = FALSE models params=None
NoParams == [present |-> FALSE, vals |-> <<>>]
Params(vs) == [present |-> TRUE, vals |-> vs]

\* lines 54-56: an aware datetime is replaced by its naive UTC equivalent
Normalize(p) == IF p.tag = "datetime" /\ p.aware THEN ToNaiveUTC(p) ELSE p

\* Variant: formats even when no parameters are given
convert_sql_always_formats(query, params) ==
    LET converted_params == [k \in 1..Len(params.vals) |-> quote_value(Normalize(params.vals[k]))]
    IN  PyFormat(query, converted_params)

\* Variant: the converted parameters end up in reverse order
convert_sql_reversed(query, params) ==
    IF (~params.present) \/ params.vals = <<>> THEN [err |-> "", text |-> query]
    ELSE
        LET n == Len(params.vals)
            converted_params ==
                [k \in 1..n |-> quote_value(Normalize(params.vals[n + 1 - k]))]
        IN  PyFormat(query, converted_params)

\* Variant: always formats with the first converted parameter alone
convert_sql_first_only(query, params) ==
    IF (~params.present) \/ params.vals = <<>> THEN [err |-> "", text |-> query]
    ELSE PyFormat(query, <<quote_value(Normalize(params.vals[1]))>>)

convert_sql(query, params) ==
    IF (~params.present) \/ params.vals = <<>> THEN [err |-> "", text |-> query]
    ELSE
        LET converted_params == [k \in 1..Len(params.vals) |-> quote_value(Normalize(params.vals[k]))]
        IN  IF Len(converted_params) = 1
            THEN PyFormat(query, <<converted_params[1]>>)
            ELSE PyFormat(query, converted_params)

\* Database.Cursor.execute(self, query): the driver receives the text and
\* either accepts it or raises
DriverExecute(log, text, fails) ==
    [sent |-> Append(log, text), raised |-> IF fails THEN "DatabaseError" ELSE ""]

\* FirebirdCursorWrapper.execute
Cursor_execute(log, query, params, fails) ==
    LET c == convert_sql(query, params)
    IN  IF c.err # "" THEN [sent |-> log, raised |-> c.err]
        ELSE DriverExecute(log, c.text, fails)

\* FirebirdCursorWrapper.executemany: the loop from parameter set j on;
\* failAt names the parameter set whose driver call raises (0: none)
RECURSIVE ExecManyFrom(_, _, _, _, _)
ExecManyFrom(log, query, param_list, j, failAt) ==
    IF j > Len(param_list) THEN [sent |-> log, raised |-> ""]
    ELSE
        LET c == convert_sql(query, param_list[j])
        IN  IF c.err # "" THEN [sent |-> log, raised |-> c.err]
            ELSE
                LET r == DriverExecute(log, c.text, failAt = j)
                IN  IF r.raised # "" THEN r
                    ELSE ExecManyFrom(r.sent, query, param_list, j + 1, failAt)

\* Variant: a failing parameter set is skipped and the loop goes on
RECURSIVE ExecManyKeepGoing(_, _, _, _, _)
ExecManyKeepGoing(log, query, param_list, j, failAt) ==
    IF j > Len(param_list) THEN [sent |-> log, raised |-> ""]
    ELSE
        LET c == convert_sql(query, param_list[j])
        IN  IF c.err # "" THEN ExecManyKeepGoing(log, query, param_list, j + 1, failAt)
            ELSE ExecManyKeepGoing(Append(log, c.text), query, param_list, j + 1, failAt)

Cursor_executemany_keep_going(log, query, param_list, failAt) ==
    ExecManyKeepGoing(log, query, param_list, 1, failAt)

Cursor_executemany(log, query, param_list, failAt) ==
    ExecManyFrom(log, query, param_list, 1, failAt)

----------------------------------------------------------------------------
(* schema.py: DatabaseSchemaEditor *)

\* Variant: text is wrapped in quotes without doubling the embedded ones
schema_quote_value_noescape(value) ==
    IF IsTemporal(value) THEN <<"'">> \o TemporalStr(value) \o <<"'">>
    ELSE IF value.tag = "str" THEN <<"'">> \o value.s \o <<"'">>
    ELSE IF value.tag = "bytes" THEN <<"x", "'">> \o Hexlify(value.b) \o <<"'">>
    ELSE IF value.tag = "None" THEN <<"N", "U", "L", "L">>
    ELSE IntToStr(value.n)

schema_quote_value(value) ==
    IF IsTemporal(value) THEN <<"'">> \o TemporalStr(value) \o <<"'">>
    ELSE IF value.tag = "str" THEN <<"'">> \o ReplaceQuote(value.s) \o <<"'">>
    ELSE IF value.tag = "bytes" THEN <<"x", "'">> \o Hexlify(value.b) \o <<"'">>
    ELSE IF value.tag = "None" THEN <<"N", "U", "L", "L">>
    ELSE IntToStr(value.n)

prepare_default(value) == schema_quote_value(value)

\* The DDL templates, each applied to the mapping it is formatted with
\* (named placeholders: the values are inserted as they are)
sql_rename_table(old_table, new_table) == <<"R", "e", "n", "a", "m", "e", " ", "t", "a", "b", "l", "e", " ", "i", "s", " ", "n", "o", "t", " ", "a", "l", "l", "o", "w", "e", "d">>
sql_delete_table(table) == <<"D", "R", "O", "P", " ", "T", "A", "B", "L", "E", " ">> \o table
sql_delete_fk(table, name) == <<"A", "L", "T", "E", "R", " ", "T", "A", "B", "L", "E", " ">> \o table \o <<" ", "D", "R", "O", "P", " ", "C", "O", "N", "S", "T", "R", "A", "I", "N", "T", " ">> \o name

\* connection.ops.quote_name: operations.py is not among the sources; the
\* DDL table of the specification renders <table> as the name given
quote_name(name) == name

\* self.execute(sql) of the schema editor: the statement goes to a cursor
\* of the connection with an empty parameter sequence
SchemaExecute(log, sql, fails) == Cursor_execute(log, sql, Params(<<>>), fails)

\* Variant: a failing drop-constraint statement does not stop the loop
RECURSIVE DropReferences_continue(_, _, _, _)
DropReferences_continue(log, references, r, failAt) ==
    IF r > Len(references) THEN [sent |-> log, raised |-> ""]
    ELSE
        LET x == SchemaExecute(log,
                               sql_delete_fk(Upper(references[r][2]), references[r][1]),
                               failAt = r)
        IN  DropReferences_continue(x.sent, references, r + 1, failAt)

\* delete_model, lines 60-61: the loop over the references from r on;
\* a reference row is <<constraint name, referencing table>>
RECURSIVE DropReferences(_, _, _, _)
DropReferences(log, references, r, failAt) ==
    IF r > Len(references) THEN [sent |-> log, raised |-> ""]
    ELSE
        LET x == SchemaExecute(log,
                               sql_delete_fk(Upper(references[r][2]), references[r][1]),
                               failAt = r)
        IN  IF x.raised # "" THEN x
            ELSE DropReferences(x.sent, references, r + 1, failAt)

\* super().delete_model(model) for a model without auto-created
\* many-to-many tables: executes sql_delete_table for the model's table
base_delete_model(log, table, fails) ==
    SchemaExecute(log, sql_delete_table(quote_name(table)), fails)

\* Variant: the table is dropped before its inbound constraints
run_delete_model_table_first(log, table, references, lookupFails, failAt) ==
    IF lookupFails THEN [sent |-> log, raised |-> "DatabaseError"]
    ELSE
        LET x == base_delete_model(log, table, failAt = Len(references) + 1)
        IN  IF x.raised # "" THEN x
            ELSE DropReferences(x.sent, references, 1, failAt)

\* delete_model: lookupFails is the catalog lookup raising; failAt names the
\* statement whose execution raises (0: none; Len(references) + 1: DROP TABLE)
run_delete_model(log, table, references, lookupFails, failAt) ==
    IF lookupFails THEN [sent |-> log, raised |-> "DatabaseError"]
    ELSE
        LET x == DropReferences(log, references, 1, failAt)
        IN  IF x.raised # "" THEN x
            ELSE base_delete_model(x.sent, table, failAt = Len(references) + 1)

\* alter_db_table: the class defines no method of its own and raises
\* nowhere; it only sets the sql_rename_table template, which the inherited
\* method uses as it uses every other template: it returns at once when the
\* names are equal, else formats the template with the two names and
\* executes the text
run_alter_db_table(log, old_db_table, new_db_table, fails) ==
    IF old_db_table = new_db_table THEN [sent |-> log, raised |-> ""]
    ELSE SchemaExecute(log,
                       sql_rename_table(quote_name(old_db_table), quote_name(new_db_table)),
                       fails)

\* Variant: the unique flag is honoured for a primary key too
column_sql_both(type, primary_key, unique) ==
    (IF primary_key THEN type \o <<" ", "P", "R", "I", "M", "A", "R", "Y", " ", "K", "E", "Y">> ELSE type)
    \o (IF unique THEN <<" ", "U", "N", "I", "Q", "U", "E">> ELSE <<>>)

column_sql(type, primary_key, unique) ==
    IF primary_key THEN type \o <<" ", "P", "R", "I", "M", "A", "R", "Y", " ", "K", "E", "Y">>
    ELSE IF unique THEN type \o <<" ", "U", "N", "I", "Q", "U", "E">>
    ELSE type

----------------------------------------------------------------------------
(* Inputs *)

QueryAlphabet == {"%", "s", "k"}
Queries == StrUpTo(QueryAlphabet, MaxQueryLen)

ParamValues ==
    {NoneV, IntV(-7), StrV(<<"%", "s">>), StrV(<<"k", "'", "k">>), BytesV(<<171, 205>>),
     AwareV(<<2020, 1, 2>>, <<1, 30, 5>>, 2)}
ParamSets == {NoParams} \cup {Params(vs) : vs \in StrUpTo(ParamValues, MaxParams)}

ManyQueries == {<<"%", "s">>, <<"%", "s", "%", "s">>, <<"k">>, <<"%", "%", "%", "s">>, <<"k", "%", "k">>}
ManySets ==
    {NoParams, Params(<<StrV(<<"%", "s">>)>>),
     Params(<<AwareV(<<2020, 1, 2>>, <<21, 30, 5>>, -5)>>),
     Params(<<StrV(<<"k", "'", "k">>), NoneV>>)}
ParamLists == StrUpTo(ManySets, MaxSets)

TextAlphabet == {"k", "'", "\\", "%"}
ByteValues == {0, 10, 171, 255}
AllValues ==
    {NoneV}
    \cup {IntV(i) : i \in {-7, 0, 42, 1000}}
    \cup {StrV(t) : t \in StrUpTo(TextAlphabet, MaxTextLen)}
    \cup {BytesV(x) : x \in StrUpTo(ByteValues, MaxBytesLen)}
    \cup {DateV(2020, 1, 2), DateV(1999, 12, 31)}
    \cup {DateTimeV(<<2020, 1, 2>>, <<3, 4, 5>>),
          AwareV(<<2020, 1, 2>>, <<1, 30, 5>>, 2),
          AwareV(<<2020, 1, 2>>, <<21, 30, 5>>, -5)}

TableNames == {<<"t">>, <<"a", "b">>}
\* rows of _get_references: <<constraint name, referencing table>>
RefRows == {<<<<"F", "K", "_", "1">>, <<"a">>>>, <<<<"f", "k", "2">>, <<"T", "b">>>>, <<<<"F", "K", "_", "1">>, <<"t">>>>}
RefLists == StrUpTo(RefRows, MaxRefs)

\* column types of data_types
FieldTypes == {<<"i", "n", "t", "e", "g", "e", "r">>, <<"b", "o", "o", "l", "e", "a", "n">>, <<"s", "m", "a", "l", "l", "i", "n", "t">>, <<"c", "h", "a", "r", "(", "1", "5", ")">>}

----------------------------------------------------------------------------
(* State machine: one call per fresh cursor *)

Init ==
    /\ pc = "idle"
    /\ call = [op |-> "none"]
    /\ sent = <<>>
    /\ raised = ""
    /\ result = <<>>

Finish(c, r) ==
    /\ call' = c
    /\ sent' = r.sent
    /\ raised' = r.raised
    /\ result' = <<>>
    /\ pc' = "done"

Return(c, text) ==
    /\ call' = c
    /\ result' = text
    /\ UNCHANGED <<sent, raised>>
    /\ pc' = "done"

execute ==
    /\ pc = "idle"
    /\ \E query \in Queries, params \in ParamSets, fails \in BOOLEAN :
        Finish([op |-> "execute", query |-> query, params |-> params, fails |-> fails],
               Cursor_execute(sent, query, params, fails))

executemany ==
    /\ pc = "idle"
    /\ \E query \in ManyQueries, param_list \in ParamLists :
        \E failAt \in 0..Len(param_list) :
            Finish([op |-> "executemany", query |-> query, param_list |-> param_list,
                    failAt |-> failAt],
                   Cursor_executemany(sent, query, param_list, failAt))

delete_model ==
    /\ pc = "idle"
    /\ \E table \in TableNames, references \in RefLists, lookupFails \in BOOLEAN :
        \E failAt \in 0..(Len(references) + 1) :
            Finish([op |-> "delete_model", table |-> table, references |-> references,
                    lookupFails |-> lookupFails, failAt |-> failAt],
                   run_delete_model(sent, table, references, lookupFails, failAt))

alter_db_table ==
    /\ pc = "idle"
    /\ \E old_db_table \in TableNames, new_db_table \in TableNames, fails \in BOOLEAN :
        Finish([op |-> "alter_db_table", old_db_table |-> old_db_table,
                new_db_table |-> new_db_table, fails |-> fails],
               run_alter_db_table(sent, old_db_table, new_db_table, fails))

call_prepare_default ==
    /\ pc = "idle"
    /\ \E value \in AllValues :
        Return([op |-> "prepare_default", value |-> value], prepare_default(value))

call_column_sql ==
    /\ pc = "idle"
    /\ \E type \in FieldTypes, primary_key \in BOOLEAN, unique \in BOOLEAN :
        Return([op |-> "_column_sql", type |-> type, primary_key |-> primary_key,
                unique |-> unique],
               column_sql(type, primary_key, unique))

\* the caller obtains a fresh cursor for its next call
create_cursor ==
    /\ pc = "done"
    /\ pc' = "idle"
    /\ call' = [op |-> "none"]
    /\ sent' = <<>>
    /\ raised' = ""
    /\ result' = <<>>

Next ==
    \/ execute
    \/ executemany
    \/ delete_model
    \/ alter_db_table
    \/ call_prepare_default
    \/ call_column_sql
    \/ create_cursor

Spec == Init /\ [][Next]_vars

----------------------------------------------------------------------------
(* Vocabulary of the properties *)

Done(op) == pc = "done" /\ call.op = op

NumValues(params) == IF params.present THEN Len(params.vals) ELSE 0

Quoted(vals) == [k \in 1..Len(vals) |-> quote_value(vals[k])]

\* the literals of the values, a timezone-aware datetime being quoted as
\* its naive UTC equivalent
QuotedUTC(vals) ==
    [k \in 1..Len(vals) |->
        quote_value(IF vals[k].aware THEN ToNaiveUTC(vals[k]) ELSE vals[k])]

HasPrefix(s, p) == Len(s) >= Len(p) /\ SubSeq(s, 1, Len(p)) = p

HasPercent(s) == \E i \in 1..Len(s) : s[i] = "%"

IsMarkerAt(fmt) == Len(fmt) >= 2 /\ fmt[1] = "%" /\ fmt[2] = "s"
IsEscapeAt(fmt) == Len(fmt) >= 2 /\ fmt[1] = "%" /\ fmt[2] = "%"

\* number of %s markers of a template, read left to right (%% is an
\* escaped percent sign, not a marker)
RECURSIVE MarkerCount(_)
MarkerCount(fmt) ==
    IF fmt = <<>> THEN 0
    ELSE IF IsMarkerAt(fmt) THEN 1 + MarkerCount(Tail(Tail(fmt)))
    ELSE IF IsEscapeAt(fmt) THEN MarkerCount(Tail(Tail(fmt)))
    ELSE MarkerCount(Tail(fmt))

\* every percent sign of the template opens a %s marker or a %% escape
RECURSIVE WellFormed(_)
WellFormed(fmt) ==
    IF fmt = <<>> THEN TRUE
    ELSE IF IsMarkerAt(fmt) \/ IsEscapeAt(fmt) THEN WellFormed(Tail(Tail(fmt)))
    ELSE Head(fmt) # "%" /\ WellFormed(Tail(fmt))

\* the template with its i-th marker replaced by lits[i]; an escape %% is
\* kept as it is, or rendered as one % when collapse is set
RECURSIVE Subst(_, _, _)
Subst(fmt, lits, collapse) ==
    IF fmt = <<>> THEN <<>>
    ELSE IF IsMarkerAt(fmt) THEN
        (IF lits = <<>> THEN <<"%", "s">> ELSE Head(lits))
        \o Subst(Tail(Tail(fmt)), IF lits = <<>> THEN <<>> ELSE Tail(lits), collapse)
    ELSE IF IsEscapeAt(fmt) THEN
        (IF collapse THEN <<"%">> ELSE <<"%", "%">>) \o Subst(Tail(Tail(fmt)), lits, collapse)
    ELSE <<Head(fmt)>> \o Subst(Tail(fmt), lits, collapse)

FormattingFailures == {"TypeError", "ValueError"}

CountQuotes(s) == Cardinality({i \in 1..Len(s) : s[i] = "'"})
IsNotQuote(c) == c # "'"

\* reading a quoted SQL literal back: after the opening quote, '' stands
\* for one quote and a single quote closes the literal
RECURSIVE ParseBody(_)
ParseBody(s) ==
    IF s = <<>> THEN [ok |-> FALSE, text |-> <<>>]
    ELSE IF Head(s) # "'" THEN
        LET rest == ParseBody(Tail(s))
        IN  [ok |-> rest.ok, text |-> <<Head(s)>> \o rest.text]
    ELSE IF Len(s) >= 2 /\ s[2] = "'" THEN
        LET rest == ParseBody(Tail(Tail(s)))
        IN  [ok |-> rest.ok, text |-> <<"'">> \o rest.text]
    ELSE [ok |-> Len(s) = 1, text |-> <<>>]

ParseLiteral(r) ==
    IF r = <<>> \/ Head(r) # "'" THEN [ok |-> FALSE, text |-> <<>>]
    ELSE ParseBody(Tail(r))

QuotedTextOK(t, r) ==
    /\ Len(r) = Len(t) + 2 + CountQuotes(t)
    /\ r[1] = "'" /\ r[Len(r)] = "'"
    /\ SelectSeq(SubSeq(r, 2, Len(r) - 1), IsNotQuote) = SelectSeq(t, IsNotQuote)
    /\ ParseLiteral(r).ok
    /\ ParseLiteral(r).text = t

IsDropTable(s) == HasPrefix(s, <<"D", "R", "O", "P", " ", "T", "A", "B", "L", "E", " ">>)

----------------------------------------------------------------------------
(* Properties *)

\* C1: delete_model on a table whose catalog lookup returns N references
\* emits exactly N drop-constraint statements, one per reference in the
\* order returned, followed by exactly one DROP TABLE for that table; no
\* DROP TABLE comes before the last drop-constraint statement.
C1_DropConstraintsThenTable ==
    (Done("delete_model") /\ ~call.lookupFails
        /\ call.failAt \notin 1..Len(call.references))
    => LET N == Len(call.references)
       IN  /\ Len(sent) = N + 1
           /\ \A i \in 1..N :
                sent[i] = <<"A", "L", "T", "E", "R", " ", "T", "A", "B", "L", "E", " ">> \o Upper(call.references[i][2])
                          \o <<" ", "D", "R", "O", "P", " ", "C", "O", "N", "S", "T", "R", "A", "I", "N", "T", " ">> \o call.references[i][1]
           /\ sent[N + 1] = <<"D", "R", "O", "P", " ", "T", "A", "B", "L", "E", " ">> \o call.table
           /\ \A i \in 1..(N + 1) : IsDropTable(sent[i]) <=> i = N + 1

C1_Witness ==
    /\ Done("delete_model") /\ ~call.lookupFails /\ call.failAt = 0
    /\ Len(call.references) = 2
    /\ Len(sent) = 3 /\ IsDropTable(sent[3]) /\ raised = ""

\* C2: a rename-table request (to a different name) always fails with the
\* unsupported-operation signal and hands no statement text to the
\* connection.
C2_RenameFailsWithoutSQL ==
    (Done("alter_db_table") /\ call.old_db_table # call.new_db_table)
    => (raised = "NotSupportedError" /\ sent = <<>>)

\* C3: with an empty or absent parameter sequence the template is returned
\* unchanged, markers included, and execute hands the query text to the
\* driver exactly as given.
C3_NoParamsUnchanged ==
    (Done("execute") /\ NumValues(call.params) = 0)
    => /\ sent = <<call.query>>
       /\ raised = (IF call.fails THEN "DatabaseError" ELSE "")

C3_Witness ==
    /\ Done("execute") /\ ~call.params.present
    /\ call.query = <<"%", "s", "%", "%">>
    /\ sent = <<call.query>>

\* C4 as stated: for a template with k >= 1 markers and exactly k values
\* the result is the template with the i-th marker replaced by
\* quote(value_i) and all text outside the markers unchanged (read here
\* for the templates whose percent signs all belong to markers or escapes).
C4_Original ==
    (Done("execute") /\ NumValues(call.params) >= 1
        /\ WellFormed(call.query)
        /\ MarkerCount(call.query) = NumValues(call.params))
    => /\ raised \notin FormattingFailures
       /\ sent = <<Subst(call.query, Quoted(call.params.vals), FALSE)>>

\* C4 amended: for a template whose percent signs all belong to %s markers
\* or %% escapes, with k >= 1 markers and exactly k values, the result is
\* the template with the i-th marker replaced by quote(value_i), in order,
\* each %% escape rendered as a single % and all other text unchanged
\* (k = 1 and k >= 2 alike); a timezone-aware datetime is quoted as its
\* naive UTC equivalent.
C4_MarkersReplacedInOrder ==
    (Done("execute") /\ NumValues(call.params) >= 1
        /\ WellFormed(call.query)
        /\ MarkerCount(call.query) = NumValues(call.params))
    => /\ raised \notin FormattingFailures
       /\ sent = <<Subst(call.query, QuotedUTC(call.params.vals), TRUE)>>

C4_Witness ==
    /\ Done("execute") /\ NumValues(call.params) = 2
    /\ call.query = <<"%", "s", "%", "s">>
    /\ call.params.vals = <<StrV(<<"k", "'", "k">>), AwareV(<<2020, 1, 2>>, <<1, 30, 5>>, 2)>>
    /\ sent = <<<<"'", "k", "'", "'", "k", "'", "'", "2", "0", "2", "0", "-", "0", "1", "-", "0", "1", " ", "2", "3", ":", "3", "0", ":", "0", "5", "'">>>>

C6_QuoteTextRoundTrip ==
    /\ (Done("prepare_default") /\ call.value.tag = "str")
       => QuotedTextOK(call.value.s, result)
    /\ (Done("execute") /\ call.query = <<"%", "s">> /\ NumValues(call.params) = 1
            /\ call.params.vals[1].tag = "str")
       => (Len(sent) = 1 /\ QuotedTextOK(call.params.vals[1].s, sent[1]))

C6_Witness ==
    /\ Done("prepare_default") /\ call.value.tag = "str"
    /\ CountQuotes(call.value.s) = 2 /\ Len(call.value.s) = 3
    /\ CountQuotes(result) = 6
    /\ ParseLiteral(result).text = call.value.s

\* C7: the column definition is the type string followed by " PRIMARY KEY"
\* for a primary key (never " UNIQUE", even when unique is set too), by
\* " UNIQUE" once for a unique field that is no primary key, and by nothing
\* otherwise.
C7_ColumnSuffix ==
    Done("_column_sql")
    => result = call.type \o (CASE call.primary_key -> <<" ", "P", "R", "I", "M", "A", "R", "Y", " ", "K", "E", "Y">>
                                [] ~call.primary_key /\ call.unique -> <<" ", "U", "N", "I", "Q", "U", "E">>
                                [] OTHER -> <<>>)

C7_Witness ==
    /\ Done("_column_sql") /\ call.primary_key /\ call.unique
    /\ result = call.type \o <<" ", "P", "R", "I", "M", "A", "R", "Y", " ", "K", "E", "Y">>

\* the case of C8: matching marker and value counts, and a value whose
\* quoted literal contains a percent sign followed by a later value
C8_Case(query, vals) ==
    /\ WellFormed(query)
    /\ Len(vals) >= 2
    /\ MarkerCount(query) = Len(vals)
    /\ \E i \in 1..(Len(vals) - 1) : HasPercent(quote_value(vals[i]))

\* an execute call of that case has returned with a value away from its
\* own marker position
C8_Misplaced ==
    /\ Done("execute") /\ call.params.present
    /\ C8_Case(call.query, call.params.vals)
    /\ \/ raised \in FormattingFailures
       \/ sent # <<Subst(call.query, QuotedUTC(call.params.vals), TRUE)>>

\* C8 as stated: there are a template and values, with matching marker and
\* value counts and one value containing a percent sign, for which a later
\* value is not substituted at its own marker position; that is, on a fresh
\* cursor an execute call with such an outcome is possible.
C8_Original == (pc = "idle") => ENABLED (execute /\ C8_Misplaced')

\* C8 amended: substitution is a single pass over the template, so a value
\* whose quoted literal contains a percent sign is inserted as it is and
\* every later value is still substituted at its own marker position.
C8_PercentValueLeavesPositions ==
    (Done("execute") /\ call.params.present
        /\ C8_Case(call.query, call.params.vals))
    => /\ raised \notin FormattingFailures
       /\ sent = <<Subst(call.query, QuotedUTC(call.params.vals), TRUE)>>

C8_Witness ==
    /\ Done("execute") /\ call.params.present
    /\ call.query = <<"%", "s", "%", "s">>
    /\ call.params.vals = <<StrV(<<"%", "s">>), IntV(-7)>>
    /\ sent = <<<<"'", "%", "s", "'", "-", "7">>>>

\* C9: in delete_model a failure of the catalog lookup or of a
\* drop-constraint statement reaches the caller as raised, nothing is
\* retried and nothing further is emitted; DROP TABLE is never emitted in
\* such an execution.
C9_FailureStopsDeleteModel ==
    Done("delete_model")
    => /\ call.lookupFails => (raised = "DatabaseError" /\ sent = <<>>)
       /\ (~call.lookupFails /\ call.failAt \in 1..Len(call.references))
          => /\ raised = "DatabaseError"
             /\ Len(sent) = call.failAt
             /\ \A i \in 1..Len(sent) : ~IsDropTable(sent[i])

C9_Witness ==
    /\ Done("delete_model") /\ ~call.lookupFails
    /\ Len(call.references) = 2 /\ call.failAt = 1
    /\ raised = "DatabaseError" /\ Len(sent) = 1

\* the parameter sets at which executemany stops: a rendering failure or
\* the driver raising
C10_Stops ==
    {j \in 1..Len(call.param_list) :
        convert_sql(call.query, call.param_list[j]).err # "" \/ j = call.failAt}

\* C10: executemany hands render(query, params_j) to the driver for each
\* parameter set in list order; the first rendering or driver failure ends
\* the loop, with the statements before it executed and none after it
\* issued.
C10_ExecuteManyInOrder ==
    Done("executemany")
    => LET M == Len(call.param_list)
           rendered(j) == convert_sql(call.query, call.param_list[j])
       IN  /\ \A j \in 1..Len(sent) : j <= M /\ sent[j] = rendered(j).text
           /\ IF C10_Stops = {}
              THEN raised = "" /\ Len(sent) = M
              ELSE LET f == CHOOSE j \in C10_Stops : \A g \in C10_Stops : j <= g
                   IN  IF rendered(f).err # ""
                       THEN raised = rendered(f).err /\ Len(sent) = f - 1
                       ELSE raised = "DatabaseError" /\ Len(sent) = f

C10_Witness ==
    /\ Done("executemany") /\ Len(call.param_list) = 3
    /\ call.failAt = 2 /\ raised = "DatabaseError" /\ Len(sent) = 2
    /\ sent[1] # sent[2]

====
